---------------------------- MODULE Spec2Model ----------------------------
(***************************************************************************)
(* Model of chromadb-docker-demo/client/main.py: the configuration         *)
(* resolver (load_env_file, resolve_setting), the collection seeder        *)
(* (ensure_documents), the relevance scorer (keyword_relevance), the       *)
(* result evaluator (evaluate_results) and the query runner (run, with the *)
(* __main__ guard that turns an exception into exit status 1).             *)
(*                                                                         *)
(* A Python str is a sequence of one-character strings, so that lower(),   *)
(* strip(), split(), splitlines(), the `in` substring test and int() are   *)
(* computed character by character.                                        *)
(***************************************************************************)
EXTENDS Integers, Sequences, FiniteSets, TLC

VARIABLES
    pc,              \* position of the process / of the function under check
    \* ---- relevance scorer
    text,            \* keyword_relevance: text
    keywords,        \* keyword_relevance / evaluate_results: keywords
    score,           \* keyword_relevance's return value
    text2,           \* the same text with the case of letters changed
    keywords2,       \* the same keywords with the case of one keyword changed
    score2,          \* keyword_relevance(text2, keywords2)
    \* ---- configuration
    environ,         \* os.environ, restricted to the keys looked up
    envFile,         \* the .env file: missing, unreadable, or its text
    env_file_values, \* load_env_file's return value
    env_key,         \* resolve_setting: env_key
    resolved,        \* resolve_setting's return value
    \* ---- seeder and external store
    store,           \* the collection: id -> entry
    store0,          \* the collection before the first seeding
    store1,          \* the collection after the first seeding
    seeded,          \* number of ensure_documents calls made
    \* ---- evaluator
    results,         \* evaluate_results: results (a query response)
    report,          \* what evaluate_results printed, or that it raised
    \* ---- query runner
    reset,           \* the --reset flag
    host,            \* run: host
    port_str,        \* run: port_str
    port,            \* run: port
    connected,       \* the (host, port) pairs handed to build_client
    calls,           \* the store calls made so far, in order
    evaluated,       \* number of evaluate_results calls completed
    output,          \* the lines printed so far (kinds of message)
    exc,             \* the call whose exception is propagating, or "none"
    exitCode         \* the process exit status, -1 while running

scoreVars  == <<text, keywords, score, text2, keywords2, score2>>
configVars == <<environ, envFile, env_file_values, env_key, resolved>>
seedVars   == <<store, store0, store1, seeded>>
evalVars   == <<results, report>>
runVars    == <<reset, host, port_str, port, connected, calls, evaluated,
                output, exc, exitCode>>
vars == <<pc, scoreVars, configVars, seedVars, evalVars, runVars>>

-----------------------------------------------------------------------------
(* Bounds of the model.                                                    *)

MaxTextLen == 3      \* longest text handed to the scorer
MaxKeywords == 3     \* largest keyword set handed to the scorer
MaxLines == 2        \* most lines in a .env file
MaxSeeds == 2        \* most seedings of one store
MaxRank == 1         \* most ranked entries in a checked query response

-----------------------------------------------------------------------------
(* Python strings.                                                         *)

Range(s) == {s[i] : i \in 1..Len(s)}

UpperLetters == <<"A", "B", "C", "D", "E", "F", "G", "H", "I", "J", "K", "L", "M",
                  "N", "O", "P", "Q", "R", "S", "T", "U", "V", "W", "X", "Y", "Z">>
LowerLetters == <<"a", "b", "c", "d", "e", "f", "g", "h", "i", "j", "k", "l", "m",
                  "n", "o", "p", "q", "r", "s", "t", "u", "v", "w", "x", "y", "z">>

\* str.lower() and str.upper() of one character
LowerChar(c) ==
    IF c \in Range(UpperLetters)
    THEN LowerLetters[CHOOSE i \in 1..Len(UpperLetters) : UpperLetters[i] = c]
    ELSE c
UpperChar(c) ==
    IF c \in Range(LowerLetters)
    THEN UpperLetters[CHOOSE i \in 1..Len(LowerLetters) : LowerLetters[i] = c]
    ELSE c

\* str.lower(), str.upper()
Lower(s) == [i \in 1..Len(s) |-> LowerChar(s[i])]
Upper(s) == [i \in 1..Len(s) |-> UpperChar(s[i])]

\* Python's `sub in s` for two strings
Contains(sub, s) ==
    \E i \in 1..(Len(s) - Len(sub) + 1) : SubSeq(s, i, i + Len(sub) - 1) = sub

\* str.isspace() of one character
IsSpace(c) == c \in {" ", "\t", "\n", "\r"}

\* str.lstrip(), str.rstrip(), str.strip()
RECURSIVE LStrip(_)
LStrip(s) == IF s # <<>> /\ IsSpace(Head(s)) THEN LStrip(Tail(s)) ELSE s
RECURSIVE RStrip(_)
RStrip(s) ==
    IF s # <<>> /\ IsSpace(s[Len(s)]) THEN RStrip(SubSeq(s, 1, Len(s) - 1)) ELSE s
Strip(s) == LStrip(RStrip(s))

-----------------------------------------------------------------------------
(* Relevance Scorer: keyword_relevance.                                    *)

\* sum(1 for kw in keywords if kw in text_lower)
RECURSIVE CountHits(_, _)
CountHits(kws, text_lower) ==
    IF kws = {} THEN 0
    ELSE LET kw == CHOOSE k \in kws : TRUE
         IN (IF Contains(kw, text_lower) THEN 1 ELSE 0)
            + CountHits(kws \ {kw}, text_lower)

\* a scorer that returns the hit count itself, capped at 5
ScoreOfHitsLinear(hits) == IF hits > 5 THEN 5 ELSE hits

\* the mapping from hit count to score
ScoreOfHits(hits) ==
    IF hits = 0 THEN 0
    ELSE IF hits = 1 THEN 3
    ELSE IF hits = 2 THEN 4
    ELSE 5

keyword_relevance(txt, kws) ==
    LET text_lower == Lower(txt)
        hits == CountHits(kws, text_lower)
    IN ScoreOfHits(hits)

-----------------------------------------------------------------------------
(* Python dicts with string keys, and Optional[str].                       *)

EmptyDict == [k \in {} |-> <<>>]

\* d[k] = v
DictSet(d, k, v) == [x \in (DOMAIN d) \cup {k} |-> IF x = k THEN v ELSE d[x]]

\* d.get(k, default)
DictGet(d, k, default) == IF k \in DOMAIN d THEN d[k] ELSE default

None == [some |-> FALSE, val |-> <<>>]
Some(s) == [some |-> TRUE, val |-> s]

\* `a or b` where a is Optional[str] and b is str: None and "" are falsy
PyOr(a, b) == IF a.some /\ a.val # <<>> THEN a.val ELSE b

-----------------------------------------------------------------------------
(* Config Resolver: load_env_file, resolve_setting, int().                 *)

DEFAULT_HOST == <<"l", "o", "c", "a", "l", "h", "o", "s", "t">>
DEFAULT_PORT == 8000
DEFAULT_COLLECTION_NAME == "articulos"

CHROMA_HOST == <<"C", "H", "R", "O", "M", "A", "_", "H", "O", "S", "T">>
CHROMA_PORT == <<"C", "H", "R", "O", "M", "A", "_", "P", "O", "R", "T">>

\* str.splitlines(): a line ends at "\n", "\r" or "\r\n"; a final
\* terminator opens no further line.  cur is the line being read.
RECURSIVE SplitLinesFrom(_, _)
SplitLinesFrom(rest, cur) ==
    IF rest = <<>> THEN (IF cur = <<>> THEN <<>> ELSE <<cur>>)
    ELSE IF Head(rest) = "\r" /\ Len(rest) >= 2 /\ rest[2] = "\n"
         THEN <<cur>> \o SplitLinesFrom(Tail(Tail(rest)), <<>>)
    ELSE IF Head(rest) \in {"\n", "\r"}
         THEN <<cur>> \o SplitLinesFrom(Tail(rest), <<>>)
    ELSE SplitLinesFrom(Tail(rest), Append(cur, Head(rest)))
SplitLines(s) == SplitLinesFrom(s, <<>>)

\* str.find(c): index of the first c in s at or after i, 0 when there is none
RECURSIVE Find(_, _, _)
Find(s, c, i) ==
    IF i > Len(s) THEN 0 ELSE IF s[i] = c THEN i ELSE Find(s, c, i + 1)

\* a loader that splits at the last "=" instead of the first
SplitAtLast(s, sep) ==
    LET p == CHOOSE i \in 1..Len(s) :
                 s[i] = sep /\ \A j \in (i + 1)..Len(s) : s[j] # sep
    IN <<SubSeq(s, 1, p - 1), SubSeq(s, p + 1, Len(s))>>

\* s.split(sep, 1) for a one-character sep that occurs in s
SplitOnce(s, sep) ==
    LET p == Find(s, sep, 1)
    IN <<SubSeq(s, 1, p - 1), SubSeq(s, p + 1, Len(s))>>

\* the body of load_env_file's loop over the lines, from line i on
RECURSIVE LoadLines(_, _, _)
LoadLines(lines, i, env_values) ==
    IF i > Len(lines) THEN env_values
    ELSE LET stripped == Strip(lines[i])
         IN IF stripped = <<>> \/ stripped[1] = "#"
            THEN LoadLines(lines, i + 1, env_values)
            ELSE IF ~ Contains(<<"=">>, stripped)
            THEN LoadLines(lines, i + 1, env_values)
            ELSE LET kv == SplitOnce(stripped, "=")
                 IN LoadLines(lines, i + 1,
                              DictSet(env_values, Strip(kv[1]), Strip(kv[2])))

\* load_env_file(env_path): the returned dict, or that read_text raised
load_env_file(file) ==
    IF file.kind = "missing" THEN [raised |-> FALSE, value |-> EmptyDict]
    ELSE IF file.kind = "unreadable" THEN [raised |-> TRUE, value |-> EmptyDict]
    ELSE [raised |-> FALSE,
          value |-> LoadLines(SplitLines(file.text), 1, EmptyDict)]

\* os.getenv(key)
getenv(env, key) == IF key \in DOMAIN env THEN Some(env[key]) ELSE None

\* a resolver that lets the file win over the process environment
resolve_setting_file_first(env, key, fallback, file_values) ==
    IF key \in DOMAIN file_values THEN file_values[key]
    ELSE PyOr(getenv(env, key), fallback)

\* resolve_setting(env_key, fallback, env_file_values), reading os.environ
resolve_setting(env, key, fallback, file_values) ==
    PyOr(getenv(env, key), DictGet(file_values, key, fallback))

Digits == <<"0", "1", "2", "3", "4", "5", "6", "7", "8", "9">>
IsDigit(c) == c \in Range(Digits)
DigitVal(c) == (CHOOSE i \in 1..Len(Digits) : Digits[i] = c) - 1

\* the value of a string of digits and underscores, acc being the value so far
RECURSIVE DigitsValue(_, _)
DigitsValue(s, acc) ==
    IF s = <<>> THEN acc
    ELSE IF Head(s) = "_" THEN DigitsValue(Tail(s), acc)
    ELSE DigitsValue(Tail(s), 10 * acc + DigitVal(Head(s)))

\* int(s) for a str: surrounding whitespace is stripped, one sign is allowed,
\* then digits with single underscores between them; anything else raises
\* ValueError (ok = FALSE)
ParseInt(s) ==
    LET t == Strip(s)
        signed == t # <<>> /\ t[1] \in {"+", "-"}
        body == IF signed THEN Tail(t) ELSE t
        wellFormed ==
            /\ body # <<>>
            /\ \A i \in 1..Len(body) : IsDigit(body[i]) \/ body[i] = "_"
            /\ IsDigit(body[1]) /\ IsDigit(body[Len(body)])
            /\ \A i \in 1..(Len(body) - 1) : ~ (body[i] = "_" /\ body[i + 1] = "_")
    IN IF ~ wellFormed THEN [ok |-> FALSE, val |-> 0]
       ELSE [ok |-> TRUE,
             val |-> IF signed /\ t[1] = "-" THEN 0 - DigitsValue(body, 0)
                     ELSE DigitsValue(body, 0)]

\* str(n) for 0 <= n
RECURSIVE NatToStr(_)
NatToStr(n) ==
    IF n < 10 THEN <<Digits[n + 1]>>
    ELSE Append(NatToStr(n \div 10), Digits[(n % 10) + 1])

-----------------------------------------------------------------------------
(* The values the variables of a component hold while another component    *)
(* is the one being run.                                                    *)

NoReport == [raised |-> FALSE, blocks |-> <<>>, coverage |-> <<>>, note |-> "none"]
NoFile == [kind |-> "missing", text |-> <<>>, lines |-> <<>>]
NoResults == [ids |-> [has |-> FALSE, val |-> <<>>],
              documents |-> [has |-> FALSE, val |-> <<>>],
              metadatas |-> [has |-> FALSE, val |-> <<>>]]

ScoreIdle ==
    /\ text = <<>> /\ keywords = {} /\ score = -1
    /\ text2 = <<>> /\ keywords2 = {} /\ score2 = -1
ConfigIdle ==
    /\ environ = EmptyDict /\ envFile = NoFile /\ env_file_values = EmptyDict
    /\ env_key = <<>> /\ resolved = <<>>
SeedIdle ==
    /\ store = EmptyDict /\ store0 = EmptyDict /\ store1 = EmptyDict /\ seeded = 0
EvalIdle ==
    /\ results = NoResults /\ report = NoReport
RunIdle ==
    /\ reset = FALSE /\ host = <<>> /\ port_str = <<>> /\ port = 0
    /\ connected = <<>> /\ calls = <<>> /\ evaluated = 0 /\ output = <<>>
    /\ exc = "none" /\ exitCode = -1

\* all sequences over S of length at most n
SeqsUpTo(S, n) == UNION {[1..k -> S] : k \in 0..n}

-----------------------------------------------------------------------------
(* SpecScore: keyword_relevance applied to bounded inputs, then applied    *)
(* again to the same input with the case of letters changed.               *)

ScoreChars == {"i", "a", "I", "A"}
KeywordPool == {<<>>, <<"i">>, <<"a">>, <<"A">>, <<"i", "a">>, <<"I", "A">>,
                <<"a", "i">>}

InitScore ==
    /\ pc = "input"
    /\ text \in SeqsUpTo(ScoreChars, MaxTextLen)
    /\ keywords \in {K \in SUBSET KeywordPool : Cardinality(K) <= MaxKeywords}
    /\ score = -1
    /\ text2 = <<>> /\ keywords2 = {} /\ score2 = -1
    /\ ConfigIdle /\ SeedIdle /\ EvalIdle /\ RunIdle

\* score = keyword_relevance(text, keywords)
Score ==
    /\ pc = "input"
    /\ score' = keyword_relevance(text, keywords)
    /\ pc' = "scored"
    /\ UNCHANGED <<text, keywords, text2, keywords2, score2>>
    /\ UNCHANGED <<configVars, seedVars, evalVars, runVars>>

\* the same call on a text that differs from text in the case of letters only
RecaseText ==
    /\ pc = "scored"
    /\ \E t \in SeqsUpTo(ScoreChars, MaxTextLen) :
          /\ Len(t) = Len(text)
          /\ \A i \in 1..Len(t) : t[i] \in {LowerChar(text[i]), UpperChar(text[i])}
          /\ text2' = t
    /\ keywords2' = keywords
    /\ score2' = keyword_relevance(text2', keywords2')
    /\ pc' = "recased"
    /\ UNCHANGED <<text, keywords, score>>
    /\ UNCHANGED <<configVars, seedVars, evalVars, runVars>>

\* the same call with one keyword written in upper or in lower case
RecaseKeyword ==
    /\ pc = "scored"
    /\ \E kw \in keywords : \E kw2 \in {Lower(kw), Upper(kw)} \ keywords :
          keywords2' = (keywords \ {kw}) \cup {kw2}
    /\ text2' = text
    /\ score2' = keyword_relevance(text2', keywords2')
    /\ pc' = "recased"
    /\ UNCHANGED <<text, keywords, score>>
    /\ UNCHANGED <<configVars, seedVars, evalVars, runVars>>

NextScore == Score \/ RecaseText \/ RecaseKeyword
SpecScore == InitScore /\ [][NextScore]_vars

\* kw occurs in t at some offset, letter for letter
OccursIn(kw, t) ==
    \E off \in 0..Len(t) :
        /\ off + Len(kw) <= Len(t)
        /\ \A j \in 1..Len(kw) : t[off + j] = kw[j]

\* the number of keywords that occur in the lower-cased text
HitCount == Cardinality({kw \in keywords : OccursIn(kw, Lower(text))})

\* C3: the score is a function of the number h of keywords that occur in the
\* (lower-cased) text: 0 for h = 0, 3 for h = 1, 4 for h = 2, 5 for h >= 3;
\* it is never 1 or 2, and it does not decrease when h grows.
C3_ScoreByHits ==
    pc = "scored" =>
        /\ HitCount = 0 => score = 0
        /\ HitCount = 1 => score = 3
        /\ HitCount = 2 => score = 4
        /\ HitCount >= 3 => score = 5
        /\ score \in {0, 3, 4, 5}
        /\ \A h1, h2 \in 0..(MaxKeywords + 1) :
              h1 <= h2 => ScoreOfHits(h1) <= ScoreOfHits(h2)

\* a scored state with three keywords that all occur in the text
C3_Witness ==
    /\ pc = "scored"
    /\ HitCount >= 3
    /\ score = 5

\* C4: the score is unchanged when the letter case of the text or of a
\* keyword is changed.
C4_CaseInsensitive == pc = "recased" => score2 = score

-----------------------------------------------------------------------------
(* SpecConfig: load_env_file applied to bounded .env files, then           *)
(* resolve_setting applied to its result and a bounded os.environ.         *)

\* the lines a .env file is written from: blank, comment, no "=", one "=",
\* spaces around key and value, empty value, empty key, several "="
LinePool ==
    {<<>>,
     <<" ", " ">>,
     <<"#", " ", "c">>,
     <<" ", "#", "F", "=", "b">>,
     <<"B", "A", "D">>,
     <<"F", "=", "b">>,
     <<"F", " ", "=", "c">>,
     <<"F", "=">>,
     <<" ", "K", " ", "=", " ", "v", " ", "w", " ">>,
     <<"K", "=", "a", "=", "b">>,
     <<"=", "v">>}

KeyK == <<"K">>
KeyF == <<"F">>
KeyZ == <<"Z">>
EnvValue == <<"e">>
Fallback == <<"d">>

\* the text of a file holding the given lines, each ended by nl, the last
\* one only when final
RECURSIVE JoinLines(_, _, _)
JoinLines(lines, nl, final) ==
    IF lines = <<>> THEN <<>>
    ELSE IF Len(lines) = 1 THEN Head(lines) \o (IF final THEN nl ELSE <<>>)
    ELSE Head(lines) \o nl \o JoinLines(Tail(lines), nl, final)

EnvFiles ==
    {[kind |-> "missing", text |-> <<>>, lines |-> <<>>],
     [kind |-> "unreadable", text |-> <<>>, lines |-> <<>>]}
    \cup {[kind |-> "text", text |-> JoinLines(ls, nl, final), lines |-> ls] :
            ls \in SeqsUpTo(LinePool, MaxLines),
            nl \in {<<"\n">>, <<"\r", "\n">>},
            final \in BOOLEAN}

InitConfig ==
    /\ pc = "load"
    /\ envFile \in EnvFiles
    /\ environ \in {EmptyDict, [k \in {KeyK} |-> <<>>], [k \in {KeyK} |-> EnvValue]}
    /\ env_file_values = EmptyDict
    /\ env_key = <<>> /\ resolved = <<>>
    /\ ScoreIdle /\ SeedIdle /\ EvalIdle /\ RunIdle

\* env_file_values = load_env_file(ENV_PATH)
Load ==
    /\ pc = "load"
    /\ LET r == load_env_file(envFile)
       IN /\ pc' = IF r.raised THEN "raised" ELSE "loaded"
          /\ env_file_values' = r.value
    /\ UNCHANGED <<environ, envFile, env_key, resolved>>
    /\ UNCHANGED <<scoreVars, seedVars, evalVars, runVars>>

\* resolved = resolve_setting(key, Fallback, env_file_values)
Resolve(key) ==
    /\ pc = "loaded"
    /\ env_key' = key
    /\ resolved' = resolve_setting(environ, key, Fallback, env_file_values)
    /\ pc' = "resolved"
    /\ UNCHANGED <<environ, envFile, env_file_values>>
    /\ UNCHANGED <<scoreVars, seedVars, evalVars, runVars>>

NextConfig == Load \/ \E key \in {KeyK, KeyF, KeyZ} : Resolve(key)
SpecConfig == InitConfig /\ [][NextConfig]_vars

\* C5: the resolved value is the environment value of the key when that is
\* set and non-empty, else the file's value when the file mapping has the
\* key, else the default.
C5_Precedence ==
    pc = "resolved" =>
        /\ (env_key \in DOMAIN environ /\ environ[env_key] # <<>>)
              => resolved = environ[env_key]
        /\ (~ (env_key \in DOMAIN environ /\ environ[env_key] # <<>>)
            /\ env_key \in DOMAIN env_file_values)
              => resolved = env_file_values[env_key]
        /\ (~ (env_key \in DOMAIN environ /\ environ[env_key] # <<>>)
            /\ env_key \notin DOMAIN env_file_values)
              => resolved = Fallback

\* the environment and the file both give the key, with different values
C5_Witness ==
    /\ pc = "resolved"
    /\ env_key \in DOMAIN environ /\ environ[env_key] # <<>>
    /\ env_key \in DOMAIN env_file_values
    /\ env_file_values[env_key] # environ[env_key]
    /\ resolved = environ[env_key]

\* the line without its leading and trailing whitespace
Trimmed(l) ==
    LET inked == {i \in 1..Len(l) : ~ IsSpace(l[i])}
    IN IF inked = {} THEN <<>>
       ELSE SubSeq(l, CHOOSE i \in inked : \A j \in inked : i <= j,
                      CHOOSE i \in inked : \A j \in inked : j <= i)

\* the line is not blank, is no comment and has an "="
IsEntry(l) ==
    /\ Trimmed(l) # <<>>
    /\ Trimmed(l)[1] # "#"
    /\ \E i \in 1..Len(Trimmed(l)) : Trimmed(l)[i] = "="

FirstEq(l) ==
    CHOOSE i \in 1..Len(Trimmed(l)) :
        Trimmed(l)[i] = "=" /\ \A j \in 1..(i - 1) : Trimmed(l)[j] # "="
KeyOf(l) == Trimmed(SubSeq(Trimmed(l), 1, FirstEq(l) - 1))
ValueOf(l) == Trimmed(SubSeq(Trimmed(l), FirstEq(l) + 1, Len(Trimmed(l))))

\* C6: the mapping returned has exactly the keys of the file's entry lines,
\* the key being the trimmed text before the first "=" and the value the
\* trimmed text after it (the last entry line of a key giving its value);
\* other lines add nothing and a missing file gives the empty mapping.
C6_LoadEnvFile ==
    pc \in {"loaded", "resolved"} =>
        /\ envFile.kind = "missing" => env_file_values = EmptyDict
        /\ envFile.kind = "text" =>
              LET ls == envFile.lines
                  entries == {i \in 1..Len(ls) : IsEntry(ls[i])}
              IN /\ DOMAIN env_file_values = {KeyOf(ls[i]) : i \in entries}
                 /\ \A i \in entries :
                       (\A j \in entries : j > i => KeyOf(ls[j]) # KeyOf(ls[i]))
                          => env_file_values[KeyOf(ls[i])] = ValueOf(ls[i])

\* a file with an entry line holding two "=" next to a line that is no entry
C6_Witness ==
    /\ pc = "loaded"
    /\ envFile.kind = "text"
    /\ \E i, j \in 1..Len(envFile.lines) :
          /\ IsEntry(envFile.lines[i])
          /\ Cardinality({p \in 1..Len(envFile.lines[i]) :
                             envFile.lines[i][p] = "="}) = 2
          /\ ~ IsEntry(envFile.lines[j])
    /\ Cardinality(DOMAIN env_file_values) = 1

-----------------------------------------------------------------------------
(* Collection Seeder: ensure_documents, and the store's upsert.            *)

\* ensure_documents: the list `documents` of (id, text, metadata) tuples
documents ==
    <<<<"historia-01",
       "La caída del Imperio Romano marcó el inicio de la Edad Media y transformó la política europea.",
       [tema |-> "historia"]>>,
     <<"ia-01",
       "Los transformers revolucionaron el NLP al permitir el aprendizaje de dependencias largas en textos.",
       [tema |-> "ia"]>>,
     <<"ecologia-01",
       "La deforestación afecta la biodiversidad y aumenta las emisiones de gases de efecto invernadero.",
       [tema |-> "ecologia"]>>,
     <<"deporte-01",
       "El entrenamiento de resistencia mejora la capacidad aeróbica y la salud cardiovascular de los atletas.",
       [tema |-> "deporte"]>>,
     <<"economia-01",
       "La inflación y la política monetaria están estrechamente relacionadas con las expectativas del mercado.",
       [tema |-> "economia"]>>,
     <<"medicina-01",
       "Las vacunas de ARNm activan respuestas inmunológicas específicas con tiempos de desarrollo reducidos.",
       [tema |-> "medicina"]>>,
     <<"tecnologia-01",
       "La computación en la nube facilita la escalabilidad de aplicaciones y la gestión de datos distribuidos.",
       [tema |-> "tecnologia"]>>,
     <<"musica-01",
       "El jazz de los años 50 exploró la improvisación modal e influyó en generaciones posteriores de músicos.",
       [tema |-> "musica"]>>,
     <<"literatura-01",
       "El realismo mágico en América Latina mezcló elementos fantásticos con narrativas cotidianas.",
       [tema |-> "literatura"]>>,
     <<"ciencia-01",
       "El método científico combina observación, hipótesis, experimentación y análisis para validar teorías.",
       [tema |-> "ciencia"]>>>>

\* a seeder that hands the texts over in reversed order
UpsertDocumentsReversed ==
    [i \in 1..Len(documents) |-> documents[Len(documents) + 1 - i][2]]

\* the three arguments of the upsert call
UpsertIds == [i \in 1..Len(documents) |-> documents[i][1]]
UpsertDocuments == [i \in 1..Len(documents) |-> documents[i][2]]
UpsertMetadatas == [i \in 1..Len(documents) |-> documents[i][3]]

\* collection.upsert(ids, documents, metadatas) on a store with upsert
\* semantics: position i writes the entry of ids[i], inserting or overwriting
RECURSIVE Upsert(_, _, _, _, _)
Upsert(st, ids, docs, metas, i) ==
    IF i > Len(ids) THEN st
    ELSE Upsert(DictSet(st, ids[i], [document |-> docs[i], metadata |-> metas[i]]),
                ids, docs, metas, i + 1)

\* ensure_documents(collection): the collection after the call
ensure_documents(st) ==
    Upsert(st, UpsertIds, UpsertDocuments, UpsertMetadatas, 1)

-----------------------------------------------------------------------------
(* SpecSeed: ensure_documents applied repeatedly to a store in any state.  *)

\* ids the store may hold before seeding: three seed ids and two others
PriorIds == {"historia-01", "ia-01", "ciencia-01", "otro-01", "otro-02"}
PriorEntries ==
    {[document |-> "texto anterior", metadata |-> [tema |-> "otro"]],
     [document |-> documents[2][2], metadata |-> [tema |-> "ia"]]}

InitSeed ==
    /\ pc = "seed"
    /\ store \in UNION {[D -> PriorEntries] : D \in SUBSET PriorIds}
    /\ store0 = store
    /\ store1 = EmptyDict
    /\ seeded = 0
    /\ ScoreIdle /\ ConfigIdle /\ EvalIdle /\ RunIdle

\* ensure_documents(collection)
Seed ==
    /\ pc = "seed"
    /\ seeded < MaxSeeds
    /\ store' = ensure_documents(store)
    /\ store1' = IF seeded = 0 THEN store' ELSE store1
    /\ seeded' = seeded + 1
    /\ UNCHANGED <<pc, store0>>
    /\ UNCHANGED <<scoreVars, configVars, evalVars, runVars>>

NextSeed == Seed
SpecSeed == InitSeed /\ [][NextSeed]_vars

SeedIds == {documents[i][1] : i \in 1..Len(documents)}

\* C8: the upsert's ids, documents and metadatas are the 10 records in the
\* same order, with distinct ids; after any number of seedings the store
\* holds, for each seed id, that record's text and metadata, it equals the
\* store after the first seeding, and the entries of other ids are as before.
C8_SeedIdempotent ==
    /\ Len(UpsertIds) = 10 /\ Len(UpsertDocuments) = 10 /\ Len(UpsertMetadatas) = 10
    /\ \A i \in 1..10 :
          <<UpsertIds[i], UpsertDocuments[i], UpsertMetadatas[i]>> = documents[i]
    /\ \A i, j \in 1..10 : i # j => UpsertIds[i] # UpsertIds[j]
    /\ seeded >= 1 =>
          /\ DOMAIN store = (DOMAIN store0) \cup SeedIds
          /\ \A i \in 1..10 :
                store[documents[i][1]] =
                    [document |-> documents[i][2], metadata |-> documents[i][3]]
          /\ \A id \in (DOMAIN store0) \ SeedIds : store[id] = store0[id]
          /\ store = store1

\* seeded twice, over a store that held a stale seed entry and a foreign one
C8_Witness ==
    /\ seeded = 2
    /\ "ia-01" \in DOMAIN store0
    /\ store0["ia-01"].document = "texto anterior"
    /\ "otro-01" \in DOMAIN store0
    /\ store["ia-01"].document = documents[2][2]

-----------------------------------------------------------------------------
(* Result Evaluator: evaluate_results.                                     *)
(*                                                                         *)
(* results is a dict; each of its keys "ids", "documents", "metadatas" is  *)
(* absent (has = FALSE) or holds a list of lists (val).  A metadata is a   *)
(* dict (isDict, map) or another value (raw).                              *)

\* topic names in the order sorted() gives them
TopicOrder ==
    <<"ciencia", "deporte", "ecologia", "economia", "historia", "ia",
      "literatura", "medicina", "musica", "otro", "tecnologia">>
TopicRank(t) == CHOOSE i \in 1..Len(TopicOrder) : TopicOrder[i] = t

\* sorted(S) for a set of topic names
RECURSIVE Sorted(_)
Sorted(S) ==
    IF S = {} THEN <<>>
    ELSE LET least == CHOOSE t \in S : \A u \in S : TopicRank(t) <= TopicRank(u)
         IN <<least>> \o Sorted(S \ {least})

\* ', '.join(parts)
RECURSIVE JoinComma(_)
JoinComma(parts) ==
    IF parts = <<>> THEN <<>>
    ELSE IF Len(parts) = 1 THEN parts
    ELSE <<Head(parts), ", ">> \o JoinComma(Tail(parts))

\* results.get(key, [[]])[0]: the first inner list, or IndexError
FirstOf(field) ==
    IF ~ field.has THEN [raised |-> FALSE, val |-> <<>>]
    ELSE IF field.val = <<>> THEN [raised |-> TRUE, val |-> <<>>]
    ELSE [raised |-> FALSE, val |-> field.val[1]]

Min2(a, b) == IF a <= b THEN a ELSE b

\* evaluate_results(query, results, keywords): what is printed, or that
\* the call raised
evaluate_results(query, res, kws) ==
    LET ids == FirstOf(res.ids)
        docs == FirstOf(res.documents)
        metas == FirstOf(res.metadatas)
    IN IF ids.raised \/ docs.raised \/ metas.raised
       THEN [raised |-> TRUE, blocks |-> <<>>, coverage |-> <<>>, note |-> "none"]
       ELSE
       LET n == Min2(Len(ids.val), Min2(Len(docs.val), Len(metas.val)))
           blocks ==
               [idx \in 1..n |->
                   [rank |-> idx,
                    id |-> ids.val[idx],
                    topic |-> IF metas.val[idx].isDict
                              THEN DictGet(metas.val[idx].map, "tema", "desconocido")
                              ELSE metas.val[idx].raw,
                    text |-> docs.val[idx],
                    score |-> keyword_relevance(docs.val[idx], kws)]]
           coverage_topics ==
               {DictGet(metas.val[i].map, "tema", "") :
                   i \in {j \in 1..Len(metas.val) : metas.val[j].isDict}}
           rendered == JoinComma(Sorted({t \in coverage_topics : t # ""}))
           related_hits ==
               {i \in 1..Len(docs.val) :
                   \E kw \in kws : Contains(kw, Lower(docs.val[i]))}
       IN [raised |-> FALSE,
           blocks |-> blocks,
           coverage |-> IF rendered # <<>> THEN rendered ELSE <<"sin datos">>,
           note |-> IF related_hits # {} THEN "ExactKeywordMatch"
                    ELSE "SemanticOnly"]

-----------------------------------------------------------------------------
(* SpecEval: evaluate_results applied to query responses of every shape.   *)

MdEcologia == [isDict |-> TRUE, map |-> [tema |-> "ecologia"], raw |-> ""]
MdIa == [isDict |-> TRUE, map |-> [tema |-> "ia"], raw |-> ""]
MdEmptyTema == [isDict |-> TRUE, map |-> [tema |-> ""], raw |-> ""]
MdNoTema == [isDict |-> TRUE, map |-> EmptyDict, raw |-> ""]
MdRaw == [isDict |-> FALSE, map |-> EmptyDict, raw |-> "otro"]

DocIa == <<"L", "a", " ", "I", "A">>
DocOther == <<"j", "a", "z", "z">>
KwIa == <<"i", "a">>

\* the shapes of one key of a response whose entries come from pool:
\* absent, [], [[]], [[e1, ...]]
FieldShapes(pool) ==
    {[has |-> FALSE, val |-> <<>>], [has |-> TRUE, val |-> <<>>]}
    \cup {[has |-> TRUE, val |-> <<inner>>] : inner \in SeqsUpTo(pool, MaxRank)}

\* each of the three fields is absent or empty
NoRankedEntries(res) ==
    \A f \in {res.ids, res.documents, res.metadatas} :
        ~ f.has \/ f.val = <<>> \/ f.val = << <<>> >>

InitEval ==
    /\ pc = "evaluate"
    /\ results \in [ids : FieldShapes({"ia-01", "musica-01"}),
                    documents : FieldShapes({DocIa, DocOther}),
                    metadatas : FieldShapes({MdEcologia, MdIa, MdEmptyTema,
                                             MdNoTema, MdRaw})]
    /\ keywords \in {{KwIa}, {KwIa, <<"z">>}}
    /\ report = NoReport
    /\ text = <<>> /\ score = -1 /\ text2 = <<>> /\ keywords2 = {} /\ score2 = -1
    /\ ConfigIdle /\ SeedIdle /\ RunIdle

\* evaluate_results(query, results, keywords)
Evaluate ==
    /\ pc = "evaluate"
    /\ report' = evaluate_results(<<"q">>, results, keywords)
    /\ pc' = "evaluated"
    /\ UNCHANGED <<results, scoreVars, configVars, seedVars, runVars>>

NextEval == Evaluate
SpecEval == InitEval /\ [][NextEval]_vars

\* C9: for a response with no ranked entries, whatever the shape of its
\* missing or empty fields, evaluate_results does not raise and reports no
\* per-rank block, coverage 'sin datos' and note SemanticOnly.
C9_EmptyResponseReport ==
    (pc = "evaluated" /\ NoRankedEntries(results)) =>
        /\ ~ report.raised
        /\ report.blocks = <<>>
        /\ report.coverage = <<"sin datos">>
        /\ report.note = "SemanticOnly"

-----------------------------------------------------------------------------
(* Query Runner: run(reset) under the __main__ guard.                      *)

\* run: the list `queries`
queries ==
    <<[text |-> "¿Cómo reducir el impacto ambiental de una ciudad?",
      keywords |-> {<<"a", "m", "b", "i", "e", "n", "t", "a", "l">>,
                    <<"d", "e", "f", "o", "r", "e", "s", "t", "a", "c", "i", "ó", "n">>,
                    <<"e", "m", "i", "s", "i", "o", "n", "e", "s">>,
                    <<"b", "i", "o", "d", "i", "v", "e", "r", "s", "i", "d", "a", "d">>}],
     [text |-> "¿Qué avances recientes mejoraron el procesamiento del lenguaje natural?",
      keywords |-> {<<"n", "l", "p">>,
                    <<"t", "r", "a", "n", "s", "f", "o", "r", "m", "e", "r", "s">>,
                    <<"l", "e", "n", "g", "u", "a", "j", "e">>,
                    <<"i", "a">>}],
     [text |-> "¿Qué factores explican el aumento de los precios?",
      keywords |-> {<<"i", "n", "f", "l", "a", "c", "i", "ó", "n">>,
                    <<"p", "r", "e", "c", "i", "o", "s">>,
                    <<"m", "o", "n", "e", "t", "a", "r", "i", "a">>,
                    <<"e", "c", "o", "n", "o", "m", "í", "a">>}]>>

\* the text of seed document ecologia-01, as a str
DocEcologia ==
    <<"L", "a", " ", "d", "e", "f", "o", "r", "e", "s", "t", "a", "c",
      "i", "ó", "n", " ", "a", "f", "e", "c", "t", "a", " ", "l", "a",
      " ", "b", "i", "o", "d", "i", "v", "e", "r", "s", "i", "d", "a",
      "d", " ", "y", " ", "a", "u", "m", "e", "n", "t", "a", " ", "l",
      "a", "s", " ", "e", "m", "i", "s", "i", "o", "n", "e", "s", " ",
      "d", "e", " ", "g", "a", "s", "e", "s", " ", "d", "e", " ", "e",
      "f", "e", "c", "t", "o", " ", "i", "n", "v", "e", "r", "n", "a",
      "d", "e", "r", "o", ".">>
DocJazz == <<"E", "l", " ", "j", "a", "z", "z">>

\* what collection.query may return for one query text: each field wrapped
\* one level, holding the ranked entries (at most n_results = 3 of them)
Responses ==
    {[ids |-> [has |-> TRUE, val |-> << <<>> >>],
      documents |-> [has |-> TRUE, val |-> << <<>> >>],
      metadatas |-> [has |-> TRUE, val |-> << <<>> >>]],
     [ids |-> [has |-> TRUE, val |-> << <<"ecologia-01">> >>],
      documents |-> [has |-> TRUE, val |-> << <<DocEcologia>> >>],
      metadatas |-> [has |-> TRUE, val |-> << <<MdEcologia>> >>]],
     [ids |-> [has |-> TRUE, val |-> << <<"musica-01", "otro-01">> >>],
      documents |-> [has |-> TRUE, val |-> << <<DocJazz, DocIa>> >>],
      metadatas |-> [has |-> TRUE, val |-> << <<MdRaw, MdIa>> >>]]}

\* values of CHROMA_PORT in os.environ and in the .env file
PortStrings ==
    {<<>>, <<"9", "0", "0", "0">>, <<"0">>, <<"7", "0", "0", "0", "0">>,
     <<"-", "1">>, <<"a", "b", "c">>, <<" ", "8", "0", " ">>, <<"8", "_", "0">>,
     <<"8", "0", "8", "0", "x">>}
HostDb == <<"d", "b">>

RunEnvirons ==
    {EmptyDict, [k \in {CHROMA_HOST} |-> HostDb]}
    \cup {[k \in {CHROMA_PORT} |-> v] : v \in PortStrings}
RunEnvFiles ==
    {[kind |-> "missing", text |-> <<>>, lines |-> <<>>],
     [kind |-> "unreadable", text |-> <<>>, lines |-> <<>>]}
    \cup {[kind |-> "text", text |-> JoinLines(ls, <<"\n">>, TRUE), lines |-> ls] :
            ls \in {<<CHROMA_PORT \o <<"=">> \o v>> : v \in
                       {<<>>, <<"7", "0", "0", "0">>, <<"7", "0", "0", "0", "0">>,
                        <<"x", "1">>}}
                   \cup {<<CHROMA_HOST \o <<" ", "=", " ">> \o HostDb,
                           <<"#", " ">> \o CHROMA_PORT \o <<"=", "1">>>>}}

InitRun ==
    /\ pc = "configure"
    /\ reset \in BOOLEAN
    /\ environ \in RunEnvirons
    /\ envFile \in RunEnvFiles
    /\ env_file_values = EmptyDict /\ env_key = <<>> /\ resolved = <<>>
    /\ host = <<>> /\ port_str = <<>> /\ port = 0
    /\ connected = <<>> /\ calls = <<>> /\ evaluated = 0 /\ output = <<>>
    /\ exc = "none" /\ exitCode = -1
    /\ store = EmptyDict /\ store0 = EmptyDict /\ store1 = EmptyDict /\ seeded = 0
    /\ results = NoResults /\ report = NoReport
    /\ ScoreIdle

\* a run that lets the ValueError of int(port_str) propagate
RunConfigureStrict ==
    /\ pc = "configure"
    /\ LET r == load_env_file(envFile)
           h == resolve_setting(environ, CHROMA_HOST, DEFAULT_HOST, r.value)
           ps == resolve_setting(environ, CHROMA_PORT, NatToStr(DEFAULT_PORT), r.value)
           parsed == ParseInt(ps)
       IN IF r.raised
          THEN /\ exc' = "read_text" /\ pc' = "error"
               /\ UNCHANGED <<env_file_values, host, port_str, port, output>>
          ELSE /\ env_file_values' = r.value
               /\ host' = h
               /\ port_str' = ps
               /\ port' = IF parsed.ok THEN parsed.val ELSE port
               /\ exc' = IF parsed.ok THEN "none" ELSE "int"
               /\ pc' = IF parsed.ok THEN "connect" ELSE "error"
               /\ UNCHANGED output
    /\ UNCHANGED <<reset, connected, calls, evaluated, exitCode>>
    /\ UNCHANGED <<environ, envFile, env_key, resolved>>
    /\ UNCHANGED <<scoreVars, seedVars, evalVars>>

\* run, up to build_client: load the .env file, resolve host and port
RunConfigure ==
    /\ pc = "configure"
    /\ LET r == load_env_file(envFile)
           h == resolve_setting(environ, CHROMA_HOST, DEFAULT_HOST, r.value)
           ps == resolve_setting(environ, CHROMA_PORT, NatToStr(DEFAULT_PORT), r.value)
           parsed == ParseInt(ps)
       IN IF r.raised
          THEN /\ exc' = "read_text" /\ pc' = "error"
               /\ UNCHANGED <<env_file_values, host, port_str, port, output>>
          ELSE /\ env_file_values' = r.value
               /\ host' = h
               /\ port_str' = ps
               /\ port' = IF parsed.ok THEN parsed.val ELSE DEFAULT_PORT
               /\ output' = IF parsed.ok THEN output
                            ELSE Append(output, "Puerto invalido")
               /\ pc' = "connect"
               /\ UNCHANGED exc
    /\ UNCHANGED <<reset, connected, calls, evaluated, exitCode>>
    /\ UNCHANGED <<environ, envFile, env_key, resolved>>
    /\ UNCHANGED <<scoreVars, seedVars, evalVars>>

\* a run that never resets
RunConnectNoReset ==
    /\ pc = "connect"
    /\ calls' = Append(calls, "connect")
    /\ connected' = Append(connected, <<host, port>>)
    /\ \E ok \in BOOLEAN :
          /\ pc' = IF ok THEN "collection" ELSE "error"
          /\ exc' = IF ok THEN exc ELSE "connect"
    /\ UNCHANGED <<reset, host, port_str, port, evaluated, output, exitCode>>
    /\ UNCHANGED <<scoreVars, configVars, seedVars, evalVars>>

\* client = build_client(host, port), then the test of the reset flag
RunConnect ==
    /\ pc = "connect"
    /\ calls' = Append(calls, "connect")
    /\ connected' = Append(connected, <<host, port>>)
    /\ \E ok \in BOOLEAN :
          /\ pc' = IF ~ ok THEN "error" ELSE IF reset THEN "reset" ELSE "collection"
          /\ exc' = IF ok THEN exc ELSE "connect"
    /\ UNCHANGED <<reset, host, port_str, port, evaluated, output, exitCode>>
    /\ UNCHANGED <<scoreVars, configVars, seedVars, evalVars>>

\* client.reset()
RunReset ==
    /\ pc = "reset"
    /\ output' = Append(output, "--reset recibido")
    /\ calls' = Append(calls, "reset")
    /\ \E ok \in BOOLEAN :
          /\ pc' = IF ok THEN "collection" ELSE "error"
          /\ exc' = IF ok THEN exc ELSE "reset"
          /\ store' = IF ok THEN EmptyDict ELSE store
    /\ UNCHANGED <<reset, host, port_str, port, connected, evaluated, exitCode>>
    /\ UNCHANGED <<store0, store1, seeded>>
    /\ UNCHANGED <<scoreVars, configVars, evalVars>>

\* collection = client.get_or_create_collection(name=DEFAULT_COLLECTION_NAME)
RunGetCollection ==
    /\ pc = "collection"
    /\ calls' = Append(calls, "get_or_create_collection")
    /\ \E ok \in BOOLEAN :
          /\ pc' = IF ok THEN "seed" ELSE "error"
          /\ exc' = IF ok THEN exc ELSE "get_or_create_collection"
    /\ UNCHANGED <<reset, host, port_str, port, connected, evaluated, output,
                   exitCode>>
    /\ UNCHANGED <<scoreVars, configVars, seedVars, evalVars>>

\* ensure_documents(collection)
RunSeed ==
    /\ pc = "seed"
    /\ calls' = Append(calls, "upsert")
    /\ \E ok \in BOOLEAN :
          /\ pc' = IF ok THEN "query" ELSE "error"
          /\ exc' = IF ok THEN exc ELSE "upsert"
          /\ store' = IF ok THEN ensure_documents(store) ELSE store
          /\ seeded' = IF ok THEN seeded + 1 ELSE seeded
          /\ output' = IF ok THEN Append(output, "Documentos insertados")
                       ELSE output
    /\ UNCHANGED <<reset, host, port_str, port, connected, evaluated, exitCode>>
    /\ UNCHANGED <<store0, store1>>
    /\ UNCHANGED <<scoreVars, configVars, evalVars>>

\* response = collection.query(query_texts=[...], n_results=3)
RunQuery ==
    /\ pc = "query"
    /\ calls' = Append(calls, "query")
    /\ \/ /\ results' \in Responses
          /\ pc' = "evaluate"
          /\ UNCHANGED exc
       \/ /\ exc' = "query"
          /\ pc' = "error"
          /\ UNCHANGED results
    /\ UNCHANGED <<reset, host, port_str, port, connected, evaluated, output,
                   exitCode>>
    /\ UNCHANGED <<report, scoreVars, configVars, seedVars>>

\* evaluate_results(query_data["text"], response, set(query_data["keywords"])),
\* then the next turn of the loop
RunEvaluate ==
    /\ pc = "evaluate"
    /\ LET query_data == queries[evaluated + 1]
           rep == evaluate_results(query_data.text, results, query_data.keywords)
       IN IF rep.raised
          THEN /\ exc' = "evaluate_results" /\ pc' = "error"
               /\ UNCHANGED <<report, evaluated, output>>
          ELSE /\ report' = rep
               /\ output' = Append(output, "Consulta")
               /\ evaluated' = evaluated + 1
               /\ pc' = IF evaluated + 1 = Len(queries) THEN "finish" ELSE "query"
               /\ UNCHANGED exc
    /\ UNCHANGED <<reset, host, port_str, port, connected, calls, exitCode>>
    /\ UNCHANGED <<results, scoreVars, configVars, seedVars>>

\* the last print of run, and the process ending normally
RunFinish ==
    /\ pc = "finish"
    /\ output' = Append(output, "Evaluacion completada")
    /\ exitCode' = 0
    /\ pc' = "exited"
    /\ UNCHANGED <<reset, host, port_str, port, connected, calls, evaluated, exc>>
    /\ UNCHANGED <<scoreVars, configVars, seedVars, evalVars>>

\* a guard that prints the error and lets the process end normally
MainExceptSwallow ==
    /\ pc = "error"
    /\ output' = Append(output, "Error al ejecutar el cliente")
    /\ exitCode' = 0
    /\ pc' = "exited"
    /\ UNCHANGED <<reset, host, port_str, port, connected, calls, evaluated, exc>>
    /\ UNCHANGED <<scoreVars, configVars, seedVars, evalVars>>

\* __main__: except Exception: print the error, sys.exit(1)
MainExcept ==
    /\ pc = "error"
    /\ output' = Append(output, "Error al ejecutar el cliente")
    /\ exitCode' = 1
    /\ pc' = "exited"
    /\ UNCHANGED <<reset, host, port_str, port, connected, calls, evaluated, exc>>
    /\ UNCHANGED <<scoreVars, configVars, seedVars, evalVars>>

NextRun ==
    \/ RunConfigure
    \/ RunConnect
    \/ RunReset
    \/ RunGetCollection
    \/ RunSeed
    \/ RunQuery
    \/ RunEvaluate
    \/ RunFinish
    \/ MainExcept
SpecRun == InitRun /\ [][NextRun]_vars

\* the process does not stop inside the except clause of __main__, nor
\* between the end of the loop and its normal exit: neither waits on anything
SpecRunFair == SpecRun /\ WF_vars(MainExcept) /\ WF_vars(RunFinish)

-----------------------------------------------------------------------------
(* Properties of the Query Runner.                                         *)

CountCalls(op) == Cardinality({i \in 1..Len(calls) : calls[i] = op})
IsPrefix(a, b) == Len(a) <= Len(b) /\ SubSeq(b, 1, Len(a)) = a

\* the store calls of a run in which no call fails
AllCalls ==
    <<"connect">> \o (IF reset THEN <<"reset">> ELSE <<>>)
    \o <<"get_or_create_collection", "upsert", "query", "query", "query">>

\* C1 as stated: every run, whatever happens in it, calls reset exactly when
\* the flag is set and calls the upsert exactly once.
C1_EveryRunSeedsOnce ==
    pc = "exited" =>
        /\ CountCalls("reset") = (IF reset THEN 1 ELSE 0)
        /\ CountCalls("upsert") = 1

\* C1 as amended: the calls made are always a prefix of connect, reset (iff
\* the flag is set), get-or-create, upsert, 3 queries, so reset comes at most
\* once, only with the flag and before the upsert, and the upsert at most
\* once and before any query; once the upsert is reached, reset has been
\* called iff the flag is set; a query is issued only when every earlier
\* response has been evaluated; a run in which no call fails makes all the
\* calls and ends after exactly 3 query/evaluate pairs.
C1_CallOrder ==
    /\ IsPrefix(calls, AllCalls)
    /\ CountCalls("upsert") = 1 => CountCalls("reset") = (IF reset THEN 1 ELSE 0)
    /\ CountCalls("query") \in {evaluated, evaluated + 1}
    /\ pc = "query" => CountCalls("query") = evaluated
    /\ (pc = "exited" /\ exc = "none") =>
          /\ calls = AllCalls
          /\ evaluated = 3
          /\ CountCalls("query") = 3

\* a run with the reset flag set that ended with no call failing
C1_Witness ==
    /\ pc = "exited" /\ exc = "none" /\ reset
    /\ calls = <<"connect", "reset", "get_or_create_collection", "upsert",
                 "query", "query", "query">>
    /\ evaluated = 3

\* C2: once a call has failed the run makes no further store call and
\* evaluates nothing more; it ends with exit status 1 after printing the
\* error; a run in which no call fails ends with exit status 0; and a run
\* in which a call fails does end.
C2_FailureIsFatal ==
    /\ [][/\ exc # "none" =>
                /\ calls' = calls /\ evaluated' = evaluated /\ exc' = exc
                /\ pc' = "exited" /\ exitCode' = 1
                /\ output' = Append(output, "Error al ejecutar el cliente")
          /\ pc' = "exited" => exitCode' = (IF exc' = "none" THEN 0 ELSE 1)
          /\ pc' # "exited" => exitCode' = -1]_vars
    /\ (exc # "none") ~> (pc = "exited" /\ exitCode = 1)
    /\ (pc = "finish") ~> (pc = "exited" /\ exitCode = 0)

\* a run whose second query failed has exited with status 1
C2_Witness ==
    /\ pc = "exited" /\ exitCode = 1 /\ exc = "query"
    /\ CountCalls("query") = 2 /\ evaluated = 1
    /\ output[Len(output)] = "Error al ejecutar el cliente"

\* C7: when the resolved port string is no integer, the run prints the
\* diagnostic, uses port 8000 and goes on to connect with it.
C7_BadPortFallsBack ==
    (pc # "configure" /\ exc # "read_text" /\ ~ ParseInt(port_str).ok) =>
        /\ port = DEFAULT_PORT
        /\ \E i \in 1..Len(output) : output[i] = "Puerto invalido"
        /\ pc = "connect" => (exc = "none" /\ ENABLED RunConnect)
        /\ pc # "connect" => (calls # <<>> /\ connected = <<<<host, DEFAULT_PORT>>>>)

\* a run with a port string that is no integer that went through every step
C7_Witness ==
    /\ pc = "exited" /\ exitCode = 0
    /\ port_str = <<"8", "0", "8", "0", "x">>
    /\ port = 8000
    /\ CountCalls("query") = 3

\* C10: the port handed to connect is an integer in 1..65535, and host and
\* port do not change once they are resolved.
C10_PortInRange ==
    [][/\ connected' # <<>> => connected'[1][2] \in 1..65535
       /\ pc # "configure" => (host' = host /\ port' = port)]_vars

=============================================================================
